---- MODULE Spec2Model ----
(***************************************************************************)
(* The parallel minimax search of the Evaluate trait (src/src/lib.rs):     *)
(* get_best_next_move fans one task out per legal root move, every task    *)
(* runs minimax on the position after its move, and a parallel max_by      *)
(* reduction selects the answer.  The Evaluate trait is generic in the     *)
(* position type; the positions here are the nodes of a small game graph   *)
(* with alternating side to move.  Scores are integer-valued.              *)
(***************************************************************************)
EXTENDS Integers, Sequences, FiniteSets, TLC

VARIABLES
    board,          \* the caller's position (self of get_best_next_move)
    pst,            \* the piece-table value of every position (value_for)
    engine,         \* Option<[f64; 6]>, the weight vector of the call
    depth,          \* the depth argument of the current call
    phase,          \* "idle", "searching", "returned", "panicked"
    calls,          \* number of get_best_next_move calls started
    pc,             \* per root task: "start", "count_locked", "minimax", "done"
    count_lock,     \* holder of the board_count mutex, 0 when free
    cache_lock,     \* holder of the board_cache mutex, 0 when free
    board_count,    \* the value inside the board_count mutex
    board_cache,    \* the map inside the board_cache mutex
    stack,          \* per root task: the minimax call stack, top last
    value,          \* per root task: the value its closure returned
    segs,           \* the items of the max_by reduction, in root-move order
    result,         \* the triple the last completed call returned
    lookup,         \* the last cache lookup of a minimax loop
    leaf_calls,     \* minimax calls made with depth = 0 in this call
    cache_src,      \* per cache key: the call that inserted the entry
    order,          \* get_worst_next_move: its tasks, in the order they locked
    text,           \* the string handed to Move::parse
    parsed,         \* what Move::parse made of it
    cpu             \* the locals of get_cpu_move and the clock

vars == <<board, pst, engine, depth, phase, calls, pc, count_lock, cache_lock,
          board_count, board_cache, stack, value, segs, result, lookup,
          leaf_calls, cache_src, order, text, parsed, cpu>>

(***************************************************************************)
(* The state of the move parser and of the driver, which the search        *)
(* leaves alone.                                                           *)
(***************************************************************************)
aux == <<text, parsed, cpu>>

(***************************************************************************)
(* Bounds of the model.                                                    *)
(***************************************************************************)
MaxDepth == 2
MaxVal == 1

(***************************************************************************)
(* Colours.                                                                *)
(***************************************************************************)
WHITE == "White"
BLACK == "Black"

(***************************************************************************)
(* The position type.  Positions 0, 2, 4, 6 have White to move and         *)
(* 1, 3, 5 Black; Succ lists, per position, the positions its legal moves  *)
(* lead to, in legal-move order.  Position 6 has no legal move.            *)
(***************************************************************************)
Positions == 0..6

Succ == [p \in Positions |->
            CASE p = 0 -> <<1, 3, 5>>
              [] p = 1 -> <<2, 4>>
              [] p = 2 -> <<3, 5>>
              [] p = 3 -> <<4, 6>>
              [] p = 4 -> <<5, 1>>
              [] p = 5 -> <<6, 2>>
              [] OTHER -> <<>>]

Roots == {0, 6}

get_current_player_color(b) == IF b % 2 = 0 THEN WHITE ELSE BLACK

get_legal_moves(b) == [i \in 1..Len(Succ[b]) |-> i]

apply_eval_move(b, m) == Succ[b][m]

cache_repr(b) == [squares |-> b, turn |-> get_current_player_color(b)]

(***************************************************************************)
(* The six heuristics, for a colour.                                       *)
(***************************************************************************)
Sign(color) == IF color = WHITE THEN 1 ELSE -1

value_for(t, b, color) == Sign(color) * t[b]

mobility_value_for(b, color) ==
    IF get_current_player_color(b) = color THEN Len(Succ[b]) ELSE 0

naive_value_for(b, color) == Sign(color) * ((b % 3) - 1)

control_value_for(b, color) ==
    IF get_current_player_color(b) = color THEN Len(Succ[b]) + 1 ELSE 1

closest_value_for(b, color) == Sign(color) * (b % 2)

trade_value_for(b, color) == 0 - (b \div 2)

(***************************************************************************)
(* Weight vectors.                                                         *)
(***************************************************************************)
None == [some |-> FALSE, w |-> <<0, 0, 0, 0, 0, 0>>]
Some(a) == [some |-> TRUE, w |-> a]

Engines == {None, Some(<<0, 1, 0, 0, 0, 0>>), Some(<<2, 0, 1, 0, 0, 0>>)}

eval_engine(e) == IF e.some THEN e.w ELSE <<1, 0, 0, 0, 0, 0>>

Term(w, h) == IF w # 0 THEN h * w ELSE 0

InvokedAll(w) == 1..6

Invoked(w) == {i \in 1..6 : w[i] # 0}

LeafEval(t, b, color, e) ==
    LET w == eval_engine(e)
    IN  Term(w[1], value_for(t, b, color))
      + Term(w[2], mobility_value_for(b, color))
      + Term(w[3], naive_value_for(b, color))
      + Term(w[4], control_value_for(b, color))
      + Term(w[5], closest_value_for(b, color))
      + Term(w[6], trade_value_for(b, color))

(***************************************************************************)
(* Constants of the search.                                                *)
(***************************************************************************)
RootAlpha == -1000000
RootBeta == 1000000
MaxInit == -999999
MinInit == 999999

Tasks == 1..Len(get_legal_moves(board))

EmptyCache == [k \in {} |-> 0]

CacheInsert(c, k, v) == [x \in (DOMAIN c) \cup {k} |-> IF x = k THEN v ELSE c[x]]

NoLookup == [hit |-> FALSE, task |-> 0, key |-> cache_repr(0), node |-> 0, mov |-> 0, val |-> 0]

NoResult == [valid |-> FALSE, mov |-> 0, count |-> 0, score |-> 0]

Frame(b, d, alpha, beta, is_maximizing, getting_move_for, e) ==
    [pos |-> b, depth |-> d, alpha |-> alpha, beta |-> beta,
     is_maximizing |-> is_maximizing, getting_move_for |-> getting_move_for,
     engine |-> e, pc |-> "enter", i |-> 1,
     best_move_value |-> 0, child_board_value |-> 0]

Top(t) == stack[t][Len(stack[t])]

Pop(s) == SubSeq(s, 1, Len(s) - 1)

SetTop(s, f) == [s EXCEPT ![Len(s)] = f]


NotParsed == [kind |-> "none"]

NoCpu == [pc |-> "none"]

(***************************************************************************)
(* The state before any call.                                              *)
(***************************************************************************)
Init ==
    /\ board \in Roots
    /\ pst \in {t \in [Positions -> 0..MaxVal] : t[0] = 0}
    /\ engine \in Engines
    /\ depth \in 0..MaxDepth
    /\ phase = "idle"
    /\ calls = 0
    /\ pc = [t \in Tasks |-> "start"]
    /\ count_lock = 0
    /\ cache_lock = 0
    /\ board_count = 0
    /\ board_cache = EmptyCache
    /\ stack = [t \in Tasks |-> <<>>]
    /\ value = [t \in Tasks |-> 0]
    /\ segs = <<>>
    /\ result = NoResult
    /\ lookup = NoLookup
    /\ leaf_calls = 0
    /\ cache_src = EmptyCache
    /\ order = <<>>
    /\ text = <<>>
    /\ parsed = NotParsed
    /\ cpu = NoCpu

(***************************************************************************)
(* get_best_next_move, lines 289-299: the legal moves, a new counter, a    *)
(* new cache, and one map item per root move.                              *)
(***************************************************************************)
NewCount == 0

KeepCache(old) == old

NewCache(old) == EmptyCache

BeginSearch(d) ==
    /\ depth' = d
    /\ phase' = "searching"
    /\ calls' = calls + 1
    /\ pc' = [t \in Tasks |-> "start"]
    /\ count_lock' = 0
    /\ cache_lock' = 0
    /\ board_count' = NewCount
    /\ board_cache' = NewCache(board_cache)
    /\ stack' = [t \in Tasks |-> <<>>]
    /\ value' = [t \in Tasks |-> 0]
    /\ segs' = [i \in 1..Len(get_legal_moves(board)) |->
                    [mov |-> get_legal_moves(board)[i], value |-> 0, ready |-> FALSE]]
    /\ lookup' = NoLookup
    /\ leaf_calls' = 0
    /\ cache_src' = EmptyCache
    /\ UNCHANGED <<aux, order, board, pst, engine, result>>

Call ==
    /\ phase = "idle"
    /\ BeginSearch(depth)

(***************************************************************************)
(* The caller asks again one ply deeper (get_cpu_move, lines 26-31).       *)
(***************************************************************************)
Deepen ==
    /\ phase = "returned"
    /\ depth < MaxDepth
    /\ BeginSearch(depth + 1)

(***************************************************************************)
(* The closure of the parallel map, lines 300-317.  The two lock guards    *)
(* are temporaries of the statement that calls minimax: they are taken in  *)
(* argument order (counter, then cache) and dropped when the statement     *)
(* ends.                                                                   *)
(***************************************************************************)
LockCount(t) ==
    /\ phase = "searching"
    /\ pc[t] = "start"
    /\ count_lock = 0
    /\ count_lock' = t
    /\ pc' = [pc EXCEPT ![t] = "count_locked"]
    /\ UNCHANGED <<aux, order, board, pst, engine, depth, phase, calls, cache_lock, board_count,
                   board_cache, stack, value, segs, result, lookup, leaf_calls,
                   cache_src>>

RootFrameMaximizing(t) ==
    Frame(apply_eval_move(board, get_legal_moves(board)[t]), depth, RootAlpha,
          RootBeta, TRUE, get_current_player_color(board), engine)

RootFrame(t) ==
    Frame(apply_eval_move(board, get_legal_moves(board)[t]), depth, RootAlpha,
          RootBeta, FALSE, get_current_player_color(board), engine)

LockCache(t) ==
    /\ phase = "searching"
    /\ pc[t] = "count_locked"
    /\ cache_lock = 0
    /\ cache_lock' = t
    /\ pc' = [pc EXCEPT ![t] = "minimax"]
    /\ stack' = [stack EXCEPT ![t] = <<RootFrame(t)>>]
    /\ leaf_calls' = IF depth = 0 THEN leaf_calls + 1 ELSE leaf_calls
    /\ UNCHANGED <<aux, order, board, pst, engine, depth, phase, calls, count_lock, board_count,
                   board_cache, value, segs, result, lookup, cache_src>>

HoldCount(t) == t

ReleaseCount(t) == 0

ReleaseCache(t) == 0

MarkReady(s, m, v) ==
    [i \in 1..Len(s) |->
        IF s[i].mov = m /\ ~s[i].ready
        THEN [mov |-> m, value |-> v, ready |-> TRUE]
        ELSE s[i]]

(***************************************************************************)
(* A minimax call of task t returns v: to its caller's loop, or, for the   *)
(* outermost call, to the closure, which ends with the item (mov, value).  *)
(***************************************************************************)
Return(t, v) ==
    IF Len(stack[t]) = 1
    THEN /\ stack' = [stack EXCEPT ![t] = <<>>]
         /\ value' = [value EXCEPT ![t] = v]
         /\ pc' = [pc EXCEPT ![t] = "done"]
         /\ count_lock' = ReleaseCount(t)
         /\ cache_lock' = ReleaseCache(t)
         /\ segs' = MarkReady(segs, get_legal_moves(board)[t], v)
    ELSE /\ stack' = [stack EXCEPT ![t] =
                        SetTop(Pop(stack[t]),
                               [stack[t][Len(stack[t]) - 1] EXCEPT
                                    !.child_board_value = v, !.pc = "update"])]
         /\ UNCHANGED <<value, pc, count_lock, cache_lock, segs>>

(***************************************************************************)
(* minimax at depth 0, lines 391-415.                                      *)
(***************************************************************************)
CountLeaf(c) == c + 1

LeafKey(b) == cache_repr(b)

PerspectiveMover(f) == get_current_player_color(f.pos)

Perspective(f) == f.getting_move_for

Leaf(t) ==
    /\ phase = "searching"
    /\ pc[t] = "minimax"
    /\ Top(t).pc = "enter"
    /\ Top(t).depth = 0
    /\ LET f == Top(t)
           eval == LeafEval(pst, f.pos, Perspective(f), f.engine)
       IN  /\ board_count' = CountLeaf(board_count)
           /\ board_cache' = CacheInsert(board_cache, LeafKey(f.pos), eval)
           /\ cache_src' = CacheInsert(cache_src, LeafKey(f.pos),
                                       [pos |-> f.pos, depth |-> f.depth,
                                        alpha |-> f.alpha, beta |-> f.beta,
                                        invoked |-> Invoked(eval_engine(f.engine))])
           /\ Return(t, eval)
    /\ UNCHANGED <<aux, order, board, pst, engine, depth, phase, calls, result, lookup, leaf_calls>>

(***************************************************************************)
(* minimax at depth # 0, lines 417-421 and 454: the legal moves and the    *)
(* initial best value.                                                     *)
(***************************************************************************)
CountEveryNode(c) == c + 1

CountNode(c) == c

EnterNode(t) ==
    /\ phase = "searching"
    /\ pc[t] = "minimax"
    /\ Top(t).pc = "enter"
    /\ Top(t).depth # 0
    /\ stack' = [stack EXCEPT ![t] =
                    SetTop(stack[t],
                           [Top(t) EXCEPT
                                !.pc = "loop", !.i = 1,
                                !.best_move_value =
                                    IF Top(t).is_maximizing THEN MaxInit ELSE MinInit])]
    /\ board_count' = CountNode(board_count)
    /\ UNCHANGED <<aux, order, board, pst, engine, depth, phase, calls, pc, count_lock, cache_lock,
                   board_cache, value, segs, result, lookup, leaf_calls,
                   cache_src>>

(***************************************************************************)
(* The head of the loop body, lines 423-440 and 456-473: the cache is      *)
(* asked for self.cache_repr(); on a hit the stored value is the child's   *)
(* value, otherwise minimax is called on the child.                        *)
(***************************************************************************)
LoopKey(b, m) == cache_repr(b)

DescendInPlace(s, child) ==
    Append([s EXCEPT ![Len(s)] = [s[Len(s)] EXCEPT !.pos = child.pos]], child)

Descend(s, child) == Append(s, child)

Lookup(t) ==
    /\ phase = "searching"
    /\ pc[t] = "minimax"
    /\ Top(t).pc = "loop"
    /\ Top(t).i <= Len(get_legal_moves(Top(t).pos))
    /\ LET f == Top(t)
           m == get_legal_moves(f.pos)[f.i]
           repr == LoopKey(f.pos, m)
           hit == repr \in DOMAIN board_cache
       IN  /\ lookup' = [hit |-> hit, task |-> t, key |-> repr, node |-> f.pos,
                         mov |-> m, val |-> IF hit THEN board_cache[repr] ELSE 0]
           /\ IF hit
              THEN /\ stack' = [stack EXCEPT ![t] =
                                  SetTop(stack[t],
                                         [f EXCEPT !.child_board_value = board_cache[repr],
                                                   !.pc = "update"])]
                   /\ UNCHANGED leaf_calls
              ELSE /\ stack' = [stack EXCEPT ![t] =
                                  Descend(stack[t],
                                         Frame(apply_eval_move(f.pos, m), f.depth - 1,
                                               f.alpha, f.beta, ~f.is_maximizing,
                                               f.getting_move_for,
                                               Some(eval_engine(f.engine))))]
                   /\ leaf_calls' = IF f.depth - 1 = 0 THEN leaf_calls + 1 ELSE leaf_calls
    /\ UNCHANGED <<aux, order, board, pst, engine, depth, phase, calls, pc, count_lock, cache_lock,
                   board_count, board_cache, value, segs, result, cache_src>>

(***************************************************************************)
(* The tail of the loop body, lines 441-451 and 474-484.                   *)
(***************************************************************************)
Better(is_maximizing, a, b) == IF is_maximizing THEN a > b ELSE a < b

StrictCutoff(alpha, beta) == beta < alpha

Cutoff(alpha, beta) == beta <= alpha

Update(t) ==
    /\ phase = "searching"
    /\ pc[t] = "minimax"
    /\ Top(t).pc = "update"
    /\ LET f == Top(t)
           best == IF Better(f.is_maximizing, f.child_board_value, f.best_move_value)
                   THEN f.child_board_value ELSE f.best_move_value
           alpha == IF f.is_maximizing /\ best > f.alpha THEN best ELSE f.alpha
           beta == IF ~f.is_maximizing /\ best < f.beta THEN best ELSE f.beta
       IN  IF Cutoff(alpha, beta)
           THEN Return(t, best)
           ELSE /\ stack' = [stack EXCEPT ![t] =
                               SetTop(stack[t],
                                      [f EXCEPT !.best_move_value = best,
                                                !.alpha = alpha, !.beta = beta,
                                                !.i = f.i + 1, !.pc = "loop"])]
                /\ UNCHANGED <<value, pc, count_lock, cache_lock, segs>>
    /\ UNCHANGED <<aux, order, board, pst, engine, depth, phase, calls, board_count, board_cache,
                   result, lookup, leaf_calls, cache_src>>

(***************************************************************************)
(* The loop has run out of moves, line 488.                                *)
(***************************************************************************)
Exhausted(t) ==
    /\ phase = "searching"
    /\ pc[t] = "minimax"
    /\ Top(t).pc = "loop"
    /\ Top(t).i > Len(get_legal_moves(Top(t).pos))
    /\ Return(t, Top(t).best_move_value)
    /\ UNCHANGED <<aux, order, board, pst, engine, depth, phase, calls, board_count, board_cache,
                   result, lookup, leaf_calls, cache_src>>

(***************************************************************************)
(* max_by, line 318: a reduction of the items with the operator that keeps *)
(* its left operand only when it compares Greater.  The reduction combines *)
(* neighbouring items in an order the pool chooses.                        *)
(***************************************************************************)
MinOf(a, b) == IF a.value < b.value THEN a ELSE b

MaxOfFirst(a, b) == IF a.value >= b.value THEN a ELSE b

MaxOf(a, b) == IF a.value > b.value THEN a ELSE b

Reduce(i) ==
    /\ phase = "searching"
    /\ i < Len(segs)
    /\ segs[i].ready
    /\ segs[i + 1].ready
    /\ segs' = [j \in 1..(Len(segs) - 1) |->
                    IF j < i THEN segs[j]
                    ELSE IF j = i THEN MaxOf(segs[i], segs[i + 1])
                    ELSE segs[j + 1]]
    /\ UNCHANGED <<aux, order, board, pst, engine, depth, phase, calls, pc, count_lock, cache_lock,
                   board_count, board_cache, stack, value, result, lookup,
                   leaf_calls, cache_src>>

(***************************************************************************)
(* Lines 319-321: unwrap the maximum, read the counter, return.            *)
(***************************************************************************)
Finish ==
    /\ phase = "searching"
    /\ Len(segs) = 1
    /\ segs[1].ready
    /\ count_lock = 0
    /\ result' = [valid |-> TRUE, mov |-> segs[1].mov, count |-> board_count,
                  score |-> segs[1].value]
    /\ phase' = "returned"
    /\ UNCHANGED <<aux, order, board, pst, engine, depth, calls, pc, count_lock, cache_lock,
                   board_count, board_cache, stack, value, segs, lookup,
                   leaf_calls, cache_src>>

ReturnDefault ==
    /\ phase = "searching"
    /\ Len(segs) = 0
    /\ phase' = "returned"
    /\ UNCHANGED <<aux, order, board, pst, engine, depth, calls, pc, count_lock, cache_lock,
                   board_count, board_cache, stack, value, segs, result, lookup,
                   leaf_calls, cache_src>>

Panic ==
    /\ phase = "searching"
    /\ Len(segs) = 0
    /\ phase' = "panicked"
    /\ UNCHANGED <<aux, order, board, pst, engine, depth, calls, pc, count_lock, cache_lock,
                   board_count, board_cache, stack, value, segs, result, lookup,
                   leaf_calls, cache_src>>

Next ==
    \/ Call
    \/ Deepen
    \/ \E t \in Tasks : LockCount(t)
    \/ \E t \in Tasks : LockCache(t)
    \/ \E t \in Tasks : Leaf(t)
    \/ \E t \in Tasks : EnterNode(t)
    \/ \E t \in Tasks : Lookup(t)
    \/ \E t \in Tasks : Update(t)
    \/ \E t \in Tasks : Exhausted(t)
    \/ \E i \in 1..Len(segs) : Reduce(i)
    \/ Finish
    \/ Panic

Spec == Init /\ [][Next]_vars

(***************************************************************************)
(* minimax (lines 376-489) as a function of the call and of the counter    *)
(* and cache it is handed: the value it returns and the counter and cache  *)
(* it leaves.                                                              *)
(***************************************************************************)
RECURSIVE MinimaxRec(_, _)
RECURSIVE LoopRec(_, _)

MinimaxRec(f, st) ==
    IF f.depth = 0
    THEN LET eval == LeafEval(pst, f.pos, Perspective(f), f.engine)
         IN  [val |-> eval,
              cache |-> CacheInsert(st.cache, LeafKey(f.pos), eval),
              count |-> CountLeaf(st.count)]
    ELSE LoopRec([f EXCEPT !.pc = "loop", !.i = 1,
                           !.best_move_value =
                               IF f.is_maximizing THEN MaxInit ELSE MinInit],
                 [cache |-> st.cache, count |-> CountNode(st.count)])

LoopRec(f, st) ==
    IF f.i > Len(get_legal_moves(f.pos))
    THEN [val |-> f.best_move_value, cache |-> st.cache, count |-> st.count]
    ELSE LET m == get_legal_moves(f.pos)[f.i]
             repr == LoopKey(f.pos, m)
             r == IF repr \in DOMAIN st.cache
                  THEN [val |-> st.cache[repr], cache |-> st.cache, count |-> st.count]
                  ELSE MinimaxRec(Frame(apply_eval_move(f.pos, m), f.depth - 1,
                                        f.alpha, f.beta, ~f.is_maximizing,
                                        f.getting_move_for,
                                        Some(eval_engine(f.engine))), st)
             best == IF Better(f.is_maximizing, r.val, f.best_move_value)
                     THEN r.val ELSE f.best_move_value
             alpha == IF f.is_maximizing /\ best > f.alpha THEN best ELSE f.alpha
             beta == IF ~f.is_maximizing /\ best < f.beta THEN best ELSE f.beta
         IN  IF Cutoff(alpha, beta)
             THEN [val |-> best, cache |-> r.cache, count |-> r.count]
             ELSE LoopRec([f EXCEPT !.best_move_value = best, !.alpha = alpha,
                                    !.beta = beta, !.i = f.i + 1],
                          [cache |-> r.cache, count |-> r.count])

(***************************************************************************)
(* get_best_next_move run by a single worker: the root tasks one after     *)
(* another in legal-move order, then the maximum folded from the left.     *)
(***************************************************************************)
RECURSIVE RunInOrder(_, _, _)
RunInOrder(t, st, items) ==
    IF t > Len(get_legal_moves(board))
    THEN [items |-> items, count |-> st.count]
    ELSE LET r == MinimaxRec(RootFrame(t), st)
         IN  RunInOrder(t + 1, [cache |-> r.cache, count |-> r.count],
                        Append(items, [mov |-> get_legal_moves(board)[t],
                                       value |-> r.val, ready |-> TRUE]))

RECURSIVE FoldMax(_, _, _)
FoldMax(items, i, acc) ==
    IF i > Len(items) THEN acc ELSE FoldMax(items, i + 1, MaxOf(acc, items[i]))

InOrder ==
    LET run == RunInOrder(1, [cache |-> EmptyCache, count |-> NewCount], <<>>)
        best == FoldMax(run.items, 2, run.items[1])
    IN  [mov |-> best.mov, count |-> run.count, score |-> best.value]

(***************************************************************************)
(* Full-width minimax without pruning and without a cache, with the same   *)
(* leaf evaluation and the same initial values.                            *)
(***************************************************************************)
RECURSIVE PlainMinimax(_, _, _)
RECURSIVE PlainLoop(_, _, _, _, _)

PlainMinimax(b, d, is_maximizing) ==
    IF d = 0
    THEN LeafEval(pst, b, get_current_player_color(board), engine)
    ELSE PlainLoop(b, d, is_maximizing, 1, IF is_maximizing THEN MaxInit ELSE MinInit)

PlainLoop(b, d, is_maximizing, i, best) ==
    IF i > Len(Succ[b])
    THEN best
    ELSE LET v == PlainMinimax(Succ[b][i], d - 1, ~is_maximizing)
         IN  PlainLoop(b, d, is_maximizing, i + 1,
                       IF is_maximizing
                       THEN (IF v > best THEN v ELSE best)
                       ELSE (IF v < best THEN v ELSE best))

PlainRootValues == {PlainMinimax(Succ[board][i], depth, FALSE) : i \in 1..Len(Succ[board])}

PlainBest == CHOOSE v \in PlainRootValues : \A u \in PlainRootValues : u <= v

Returned == phase = "returned" /\ result.valid

TypeOK ==
    /\ board \in Positions
    /\ phase \in {"idle", "searching", "returned", "panicked"}
    /\ count_lock \in {0} \cup Tasks
    /\ cache_lock \in {0} \cup Tasks

(***************************************************************************)
(* C1: for a fixed position, depth and weight vector every run of          *)
(* get_best_next_move returns the same move and score, whatever order the  *)
(* root tasks run in: the move and score of the single-worker in-order     *)
(* run.                                                                    *)
(***************************************************************************)
C1_SameMoveAndScore ==
    Returned => (result.mov = InOrder.mov /\ result.score = InOrder.score)

(***************************************************************************)
(* C2: the score get_best_next_move returns equals the best root score of  *)
(* a plain unpruned, uncached minimax of the same depth.                   *)
(***************************************************************************)
C2_ScoreEqualsPlain ==
    Returned => result.score = PlainBest

(***************************************************************************)
(* C3: whenever a loop takes the child's value from the cache, the key     *)
(* looked up is the canonical representation of that child and the value   *)
(* is the score stored for the child.                                      *)
(***************************************************************************)
C3_HitKeyIsChild ==
    lookup.hit =>
        /\ lookup.key = cache_repr(apply_eval_move(lookup.node, lookup.mov))
        /\ cache_repr(apply_eval_move(lookup.node, lookup.mov)) \in DOMAIN board_cache
        /\ lookup.val = board_cache[cache_repr(apply_eval_move(lookup.node, lookup.mov))]

(***************************************************************************)
(* C4: a root task holds the counter lock only while it increments the     *)
(* counter and the cache lock only while it inserts or looks up.           *)
(***************************************************************************)
AtIncrement(t) ==
    pc[t] = "minimax" /\ Top(t).pc = "enter" /\ Top(t).depth = 0

AtCacheAccess(t) ==
    pc[t] = "minimax" /\ (AtIncrement(t) \/ (Top(t).pc = "loop"
                            /\ Top(t).i <= Len(get_legal_moves(Top(t).pos))))

C4_LocksHeldForOneOperation ==
    \A t \in Tasks :
        /\ count_lock = t => AtIncrement(t)
        /\ cache_lock = t => AtCacheAccess(t)

(***************************************************************************)
(* C5: the counter is incremented once by every minimax call that reaches  *)
(* depth 0 and by no other call, and the count returned is the number of   *)
(* depth-0 calls of all root tasks of the call.                            *)
(***************************************************************************)
PendingLeaves == Cardinality({t \in Tasks : AtIncrement(t)})

C5_CountIsLeafCalls ==
    /\ phase = "searching" => board_count + PendingLeaves = leaf_calls
    /\ Returned => (result.count = leaf_calls /\ PendingLeaves = 0)

C5_Witness ==
    /\ Returned
    /\ depth >= 1
    /\ result.count >= 3
    /\ \A t \in Tasks : pc[t] = "done"

(***************************************************************************)
(* C6: the node count returned is the same under every order of the root   *)
(* tasks: the count of the single-worker in-order run.                     *)
(***************************************************************************)
C6_SameCount ==
    Returned => result.count = InOrder.count

(***************************************************************************)
(* C7: every cache entry was inserted by a depth-0 call, under the         *)
(* canonical representation of the position that call evaluated, and its   *)
(* value is the weighted heuristic sum of that position for the colour     *)
(* the move is chosen for, whatever window the call was given.             *)
(***************************************************************************)
HeuristicSum(b, color) ==
    LET w == eval_engine(engine)
    IN  w[1] * value_for(pst, b, color)
      + w[2] * mobility_value_for(b, color)
      + w[3] * naive_value_for(b, color)
      + w[4] * control_value_for(b, color)
      + w[5] * closest_value_for(b, color)
      + w[6] * trade_value_for(b, color)

C7_CacheHoldsLeafEvals ==
    \A k \in DOMAIN board_cache :
        /\ k \in DOMAIN cache_src
        /\ cache_src[k].depth = 0
        /\ k = cache_repr(cache_src[k].pos)
        /\ board_cache[k] = HeuristicSum(cache_src[k].pos, get_current_player_color(board))

C7_Witness ==
    /\ depth >= 1
    /\ \E k1 \in DOMAIN board_cache : \E k2 \in DOMAIN board_cache :
          /\ k1 # k2
          /\ cache_src[k1].beta # cache_src[k2].beta
          /\ board_cache[k1] # board_cache[k2]

(***************************************************************************)
(* C8: every call starts its root tasks with an empty cache and a counter  *)
(* of 0, also when earlier calls have been made.                           *)
(***************************************************************************)
Fresh == phase = "searching" /\ \A t \in Tasks : pc[t] = "start"

C8_FreshPerCall ==
    Fresh => (board_cache = EmptyCache /\ board_count = 0)

C8_Witness ==
    /\ Fresh
    /\ Tasks # {}
    /\ calls >= 2
    /\ result.valid
    /\ result.count > 0

(***************************************************************************)
(* C9: the move returned is a legal move of the position, the score        *)
(* returned is the value minimax computed for the position after that      *)
(* move, searched with is_maximizing = false for the colour to move at     *)
(* the root, and no root move obtained a greater value.                    *)
(***************************************************************************)
RangeOf(s) == {s[i] : i \in 1..Len(s)}

C9_ReturnsMaximalLegalMove ==
    /\ \A t \in Tasks :
          pc[t] = "minimax" =>
              /\ stack[t][1].pos = apply_eval_move(board, get_legal_moves(board)[t])
              /\ stack[t][1].depth = depth
              /\ stack[t][1].is_maximizing = FALSE
              /\ stack[t][1].getting_move_for = get_current_player_color(board)
    /\ Returned =>
          /\ result.mov \in RangeOf(get_legal_moves(board))
          /\ \E t \in Tasks : get_legal_moves(board)[t] = result.mov
                               /\ value[t] = result.score
          /\ \A t \in Tasks : value[t] <= result.score

C9_Witness ==
    /\ Returned
    /\ \E t \in Tasks : value[t] < result.score
    /\ \E t \in Tasks : value[t] > MaxInit /\ value[t] < result.score

(***************************************************************************)
(* C10 as stated: among several root moves with the maximal score the      *)
(* first in legal-move order is returned.                                  *)
(***************************************************************************)
Maximal(t) == \A u \in Tasks : value[u] <= value[t]

C10_FirstMaximum ==
    Returned =>
        \E t \in Tasks : /\ get_legal_moves(board)[t] = result.mov
                         /\ Maximal(t)
                         /\ \A u \in Tasks : Maximal(u) => t <= u

(***************************************************************************)
(* C10 amended: among several root moves with the maximal score the last   *)
(* in legal-move order is returned, in whatever order the reduction        *)
(* combined the items.                                                     *)
(***************************************************************************)
C10_LastMaximum ==
    Returned =>
        \E t \in Tasks : /\ get_legal_moves(board)[t] = result.mov
                         /\ Maximal(t)
                         /\ \A u \in Tasks : Maximal(u) => u <= t

C10_Witness ==
    /\ Returned
    /\ \E t \in Tasks : \E u \in Tasks :
          t # u /\ Maximal(t) /\ Maximal(u)
    /\ \E t \in Tasks : ~Maximal(t)

(***************************************************************************)
(* get_worst_next_move, lines 334-367: its own counter, cache, parallel    *)
(* map and max_by; the minimax it calls is the one above.                  *)
(***************************************************************************)
WorstCall ==
    /\ phase = "idle"
    /\ BeginSearch(depth)

WorstLockCount(t) ==
    /\ phase = "searching"
    /\ pc[t] = "start"
    /\ count_lock = 0
    /\ count_lock' = t
    /\ pc' = [pc EXCEPT ![t] = "count_locked"]
    /\ order' = Append(order, t)
    /\ UNCHANGED <<aux, board, pst, engine, depth, phase, calls, cache_lock,
                   board_count, board_cache, stack, value, segs, result, lookup,
                   leaf_calls, cache_src>>

WorstRootFrame(t) ==
    Frame(apply_eval_move(board, get_legal_moves(board)[t]), depth, -1000000,
          1000000, FALSE, get_current_player_color(board), engine)

WorstLockCache(t) ==
    /\ phase = "searching"
    /\ pc[t] = "count_locked"
    /\ cache_lock = 0
    /\ cache_lock' = t
    /\ pc' = [pc EXCEPT ![t] = "minimax"]
    /\ stack' = [stack EXCEPT ![t] = <<WorstRootFrame(t)>>]
    /\ leaf_calls' = IF depth = 0 THEN leaf_calls + 1 ELSE leaf_calls
    /\ UNCHANGED <<aux, order, board, pst, engine, depth, phase, calls, count_lock,
                   board_count, board_cache, value, segs, result, lookup, cache_src>>

WorstMaxOf(a, b) == IF a.value > b.value THEN a ELSE b

WorstReduce(i) ==
    /\ phase = "searching"
    /\ i < Len(segs)
    /\ segs[i].ready
    /\ segs[i + 1].ready
    /\ segs' = [j \in 1..(Len(segs) - 1) |->
                    IF j < i THEN segs[j]
                    ELSE IF j = i THEN WorstMaxOf(segs[i], segs[i + 1])
                    ELSE segs[j + 1]]
    /\ UNCHANGED <<aux, order, board, pst, engine, depth, phase, calls, pc,
                   count_lock, cache_lock, board_count, board_cache, stack, value,
                   result, lookup, leaf_calls, cache_src>>

WorstFinish ==
    /\ phase = "searching"
    /\ Len(segs) = 1
    /\ segs[1].ready
    /\ count_lock = 0
    /\ result' = [valid |-> TRUE, mov |-> segs[1].mov, count |-> board_count,
                  score |-> segs[1].value]
    /\ phase' = "returned"
    /\ UNCHANGED <<aux, order, board, pst, engine, depth, calls, pc, count_lock,
                   cache_lock, board_count, board_cache, stack, value, segs,
                   lookup, leaf_calls, cache_src>>

WorstPanic ==
    /\ phase = "searching"
    /\ Len(segs) = 0
    /\ phase' = "panicked"
    /\ UNCHANGED <<aux, order, board, pst, engine, depth, calls, pc, count_lock,
                   cache_lock, board_count, board_cache, stack, value, segs,
                   result, lookup, leaf_calls, cache_src>>

NextWorst ==
    \/ WorstCall
    \/ \E t \in Tasks : WorstLockCount(t)
    \/ \E t \in Tasks : WorstLockCache(t)
    \/ \E t \in Tasks : Leaf(t)
    \/ \E t \in Tasks : EnterNode(t)
    \/ \E t \in Tasks : Lookup(t)
    \/ \E t \in Tasks : Update(t)
    \/ \E t \in Tasks : Exhausted(t)
    \/ \E i \in 1..Len(segs) : WorstReduce(i)
    \/ WorstFinish
    \/ WorstPanic

SpecWorst == Init /\ [][NextWorst]_vars

(***************************************************************************)
(* get_best_next_move with its root tasks run one after another in the     *)
(* order ord.                                                              *)
(***************************************************************************)
RECURSIVE RunInSchedule(_, _, _, _)
RunInSchedule(ord, k, st, vals) ==
    IF k > Len(ord)
    THEN [vals |-> vals, count |-> st.count]
    ELSE LET r == MinimaxRec(RootFrame(ord[k]), st)
         IN  RunInSchedule(ord, k + 1, [cache |-> r.cache, count |-> r.count],
                           [vals EXCEPT ![ord[k]] = r.val])

BestUnder(ord) ==
    LET run == RunInSchedule(ord, 1, [cache |-> EmptyCache, count |-> NewCount],
                             [t \in Tasks |-> 0])
        items == [t \in Tasks |-> [mov |-> get_legal_moves(board)[t],
                                   value |-> run.vals[t], ready |-> TRUE]]
        best == FoldMax(items, 2, items[1])
    IN  [valid |-> TRUE, mov |-> best.mov, count |-> run.count, score |-> best.value]

(***************************************************************************)
(* C11: get_worst_next_move returns the triple get_best_next_move returns  *)
(* under the same task schedule: a root move of maximal score, not one of  *)
(* minimal score.                                                          *)
(***************************************************************************)
C11_WorstEqualsBest ==
    Returned =>
        /\ result = BestUnder(order)
        /\ \A t \in Tasks : value[t] <= result.score

C11_Witness ==
    /\ Returned
    /\ Len(order) = 3
    /\ order[1] # 1
    /\ \E t \in Tasks : value[t] < result.score
    /\ lookup.hit

(***************************************************************************)
(* C12: the search never changes the board it is called on; every task     *)
(* works on positions of its own, each made by apply_eval_move from the    *)
(* position of the calling frame, which stays as it was; and a task's      *)
(* call stack and value are written by that task only (the one holding     *)
(* the locks), so only the counter and the cache are written by several    *)
(* tasks.                                                                  *)
(***************************************************************************)
MinOfTwo(a, b) == IF a < b THEN a ELSE b

C12_Step ==
    /\ board' = board
    /\ \A t \in Tasks :
          /\ (phase = "searching" /\ (stack'[t] # stack[t] \/ value'[t] # value[t]))
                => count_lock = t
          /\ \A j \in 1..MinOfTwo(Len(stack[t]), Len(stack'[t])) :
                stack'[t][j].pos = stack[t][j].pos
          /\ Len(stack'[t]) >= 1 =>
                stack'[t][1].pos = apply_eval_move(board, get_legal_moves(board)[t])
          /\ \A j \in 2..Len(stack'[t]) :
                stack'[t][j].pos =
                    apply_eval_move(stack'[t][j - 1].pos,
                                    get_legal_moves(stack'[t][j - 1].pos)[stack'[t][j - 1].i])

C12_BoardReadOnly == [][C12_Step]_vars

C12_Witness ==
    /\ Returned
    /\ calls >= 2
    /\ board = 0
    /\ \A t \in Tasks : pc[t] = "done"
    /\ Cardinality(DOMAIN board_cache) >= 2
    /\ board_count >= 3

(***************************************************************************)
(* C13: a depth-0 score is the sum of weight times heuristic over exactly  *)
(* the heuristics whose weight is not zero, no other heuristic is called,  *)
(* and without a weight vector the score is the piece-table value alone,   *)
(* as with the weights [1, 0, 0, 0, 0, 0].                                 *)
(***************************************************************************)
Heuristic(i, b, color) ==
    CASE i = 1 -> value_for(pst, b, color)
      [] i = 2 -> mobility_value_for(b, color)
      [] i = 3 -> naive_value_for(b, color)
      [] i = 4 -> control_value_for(b, color)
      [] i = 5 -> closest_value_for(b, color)
      [] OTHER -> trade_value_for(b, color)

RECURSIVE SumOver(_, _, _, _)
SumOver(used, w, b, color) ==
    IF used = {}
    THEN 0
    ELSE LET i == CHOOSE x \in used : TRUE
         IN  w[i] * Heuristic(i, b, color) + SumOver(used \ {i}, w, b, color)

GivenWeights == IF engine.some THEN engine.w ELSE <<1, 0, 0, 0, 0, 0>>

C13_OnlyWeightedHeuristics ==
    \A k \in DOMAIN board_cache :
        LET b == cache_src[k].pos
            color == get_current_player_color(board)
            used == {i \in 1..6 : GivenWeights[i] # 0}
        IN  /\ cache_src[k].invoked = used
            /\ board_cache[k] = SumOver(used, GivenWeights, b, color)
            /\ ~engine.some =>
                  /\ cache_src[k].invoked = {1}
                  /\ board_cache[k] = value_for(pst, b, color)

C13_Witness ==
    /\ engine = Some(<<2, 0, 1, 0, 0, 0>>)
    /\ \E k \in DOMAIN board_cache :
          /\ mobility_value_for(cache_src[k].pos, get_current_player_color(board)) # 0
          /\ cache_src[k].invoked = {1, 3}
          /\ board_cache[k] # 0

(***************************************************************************)
(* Move text (lines 148-241).  A string is a sequence of characters; a     *)
(* character is written as a one-letter string, or as "U+..." when it is   *)
(* not ASCII, and takes ByteLen bytes in UTF-8.                            *)
(***************************************************************************)
ByteLen(ch) ==
    CASE ch = "U+20AC" -> 3
      [] ch = "U+00E9" -> 2
      [] OTHER -> 1

IsWhitespace(ch) == ch = " "

W_resign == <<"r", "e", "s", "i", "g", "n">>
W_resigns == <<"r", "e", "s", "i", "g", "n", "s">>
W_Resign == <<"R", "e", "s", "i", "g", "n">>
W_OO == <<"O", "-", "O">>
W_OOO == <<"O", "-", "O", "-", "O">>
W_00 == <<"0", "-", "0">>
W_000 == <<"0", "-", "0", "-", "0">>
W_oo == <<"o", "-", "o">>
W_ooo == <<"o", "-", "o", "-", "o">>
W_queenside == <<"q", "u", "e", "e", "n", "s", "i", "d", "e">>
W_kingside == <<"k", "i", "n", "g", "s", "i", "d", "e">>
W_castle == <<"c", "a", "s", "t", "l", "e">>
W_to == <<"t", "o">>
W_e2 == <<"e", "2">>
W_e4 == <<"e", "4">>
W_e9 == <<"e", "9">>
W_e2e4 == <<"e", "2", "e", "4">>
W_a_euro == <<"a", "U+20AC">>
W_ee_acute == <<"U+00E9", "U+00E9">>
W_queen == <<"q", "u", "e", "e", "n">>
W_knight == <<"k", "n", "i", "g", "h", "t">>
W_rook == <<"r", "o", "o", "k">>
W_bishop == <<"b", "i", "s", "h", "o", "p">>
W_king == <<"k", "i", "n", "g">>
W_pawn == <<"p", "a", "w", "n">>

Vocab ==
    {W_resign, W_resigns, W_Resign, W_OO, W_OOO, W_00, W_000, W_oo, W_ooo,
     W_queenside, W_kingside, W_castle, W_to, W_e2, W_e4, W_e9, W_e2e4,
     W_a_euro, W_ee_acute, W_queen, W_knight, W_rook, W_bishop, W_king, W_pawn}

SmallVocab ==
    {W_to, W_e2, W_e9, W_a_euro, W_queen, W_knight, W_rook, W_bishop, W_king, W_pawn}

MaxWords == 4

Spaces(n) == [i \in 1..n |-> " "]

RECURSIVE JoinWords(_, _)
JoinWords(ws, sep) ==
    IF Len(ws) = 0 THEN <<>>
    ELSE IF Len(ws) = 1 THEN ws[1]
    ELSE ws[1] \o sep \o JoinWords(Tail(ws), sep)

WordSeqs ==
    UNION ({[1..n -> Vocab] : n \in 0..2} \cup {[1..n -> SmallVocab] : n \in 3..MaxWords})

Texts ==
    {Spaces(pad) \o JoinWords(ws, Spaces(sep)) \o Spaces(pad) :
        ws \in WordSeqs, pad \in 0..1, sep \in 1..2}

(***************************************************************************)
(* Squares, pieces and moves.                                              *)
(***************************************************************************)
Files == <<"a", "b", "c", "d", "e", "f", "g", "h">>
Ranks == <<"1", "2", "3", "4", "5", "6", "7", "8">>

IndexOf(s, x) == CHOOSE i \in 1..Len(s) : s[i] = x

Ok(v) == [kind |-> "ok", val |-> v, msg |-> ""]
Err(m) == [kind |-> "err", val |-> 0, msg |-> m]
Panicked == [kind |-> "panic", val |-> 0, msg |-> ""]

Position_pgn(s) ==
    IF Len(s) = 2 /\ s[1] \in RangeOf(Files) /\ s[2] \in RangeOf(Ranks)
    THEN Ok([col |-> IndexOf(Files, s[1]) - 1, row |-> IndexOf(Ranks, s[2]) - 1])
    ELSE Err("invalid pgn")

Position_fmt(p) == <<Files[p.col + 1], Ranks[p.row + 1]>>

PieceNames ==
    [queen |-> W_queen, knight |-> W_knight, rook |-> W_rook, bishop |-> W_bishop,
     king |-> W_king, pawn |-> W_pawn]

Piece_try_from(s) ==
    IF \E n \in DOMAIN PieceNames : PieceNames[n] = s
    THEN Ok(CHOOSE n \in DOMAIN PieceNames : PieceNames[n] = s)
    ELSE Err("invalid piece")

get_name(piece) == PieceNames[piece]

is_king(piece) == piece = "king"

is_pawn(piece) == piece = "pawn"

NoSquare == [col |-> 0, row |-> 0]

QueenSideCastle == [tag |-> "QueenSideCastle", from |-> NoSquare, to |-> NoSquare, piece |-> ""]
KingSideCastle == [tag |-> "KingSideCastle", from |-> NoSquare, to |-> NoSquare, piece |-> ""]
Resign == [tag |-> "Resign", from |-> NoSquare, to |-> NoSquare, piece |-> ""]
Piece(from, to) == [tag |-> "Piece", from |-> from, to |-> to, piece |-> ""]
Promotion(from, to, piece) == [tag |-> "Promotion", from |-> from, to |-> to, piece |-> piece]

(***************************************************************************)
(* str::trim, str::split_whitespace, str::len and the byte slices          *)
(* &s[..n] and &s[n..m], which panic when n or m is not on a character     *)
(* boundary.                                                               *)
(***************************************************************************)
RECURSIVE TrimStart(_)
TrimStart(s) ==
    IF Len(s) > 0 /\ IsWhitespace(s[1]) THEN TrimStart(Tail(s)) ELSE s

RECURSIVE TrimEnd(_)
TrimEnd(s) ==
    IF Len(s) > 0 /\ IsWhitespace(s[Len(s)]) THEN TrimEnd(SubSeq(s, 1, Len(s) - 1)) ELSE s

Trim(s) == TrimEnd(TrimStart(s))

RECURSIVE SplitFrom(_, _, _)
SplitFrom(s, cur, acc) ==
    IF Len(s) = 0
    THEN (IF Len(cur) > 0 THEN Append(acc, cur) ELSE acc)
    ELSE IF IsWhitespace(s[1])
         THEN SplitFrom(Tail(s), <<>>, IF Len(cur) > 0 THEN Append(acc, cur) ELSE acc)
         ELSE SplitFrom(Tail(s), Append(cur, s[1]), acc)

split_whitespace(s) == SplitFrom(s, <<>>, <<>>)

RECURSIVE ByteCount(_)
ByteCount(s) == IF Len(s) = 0 THEN 0 ELSE ByteLen(s[1]) + ByteCount(Tail(s))

IsCharBoundary(s, n) == \E k \in 0..Len(s) : ByteCount(SubSeq(s, 1, k)) = n

CharsBefore(s, n) == CHOOSE k \in 0..Len(s) : ByteCount(SubSeq(s, 1, k)) = n

ByteSlice(s, n, m) ==
    IF IsCharBoundary(s, n) /\ IsCharBoundary(s, m)
    THEN Ok(SubSeq(s, CharsBefore(s, n) + 1, CharsBefore(s, m)))
    ELSE Panicked

(***************************************************************************)
(* Move::try_from, lines 169-201.                                          *)
(***************************************************************************)
PieceOf(a, b) ==
    IF a.kind # "ok" THEN a
    ELSE IF b.kind # "ok" THEN b
    ELSE Ok(Piece(a.val, b.val))

KingOnly(piece) == is_king(piece)

InvalidPromotion(piece) == is_king(piece) \/ is_pawn(piece)

try_from(repr0) ==
    LET repr == Trim(repr0)
        words == split_whitespace(repr)
    IN  IF repr \in {W_resign, W_resigns} THEN Ok(Resign)
        ELSE IF repr \in {W_queenside \o <<" ">> \o W_castle,
                          W_castle \o <<" ">> \o W_queenside, W_OOO, W_000, W_ooo}
        THEN Ok(QueenSideCastle)
        ELSE IF repr \in {W_kingside \o <<" ">> \o W_castle,
                          W_castle \o <<" ">> \o W_kingside, W_OO, W_00, W_oo}
        THEN Ok(KingSideCastle)
        ELSE IF Len(words) = 1 /\ ByteCount(words[1]) = 4
        THEN LET h1 == ByteSlice(words[1], 0, 2)
                 h2 == ByteSlice(words[1], 2, 4)
             IN  IF h1.kind = "panic" THEN Panicked
                 ELSE IF Position_pgn(h1.val).kind # "ok" THEN Position_pgn(h1.val)
                 ELSE IF h2.kind = "panic" THEN Panicked
                 ELSE PieceOf(Position_pgn(h1.val), Position_pgn(h2.val))
        ELSE IF Len(words) = 2
        THEN PieceOf(Position_pgn(words[1]), Position_pgn(words[2]))
        ELSE IF Len(words) = 3 /\ words[2] = W_to
        THEN PieceOf(Position_pgn(words[1]), Position_pgn(words[3]))
        ELSE IF Len(words) = 4 /\ words[2] = W_to
        THEN LET piece == Piece_try_from(words[4])
                 from == Position_pgn(words[1])
                 to == Position_pgn(words[3])
             IN  IF piece.kind # "ok" THEN piece
                 ELSE IF InvalidPromotion(piece.val) THEN Err("invalid promotion")
                 ELSE IF from.kind # "ok" THEN from
                 ELSE IF to.kind # "ok" THEN to
                 ELSE Ok(Promotion(from.val, to.val, piece.val))
        ELSE Err("invalid move format")

(***************************************************************************)
(* Display for Move, lines 228-241.                                        *)
(***************************************************************************)
Move_fmt(m) ==
    CASE m.tag = "Piece" -> Position_fmt(m.from) \o <<" ">> \o W_to \o <<" ">> \o Position_fmt(m.to)
      [] m.tag = "Promotion" ->
            Position_fmt(m.from) \o <<" ">> \o W_to \o <<" ">> \o Position_fmt(m.to)
                \o <<" ">> \o get_name(m.piece)
      [] m.tag = "KingSideCastle" -> W_OO
      [] m.tag = "QueenSideCastle" -> W_OOO
      [] OTHER -> W_Resign

SampleSquares == {[col |-> 4, row |-> 1], [col |-> 4, row |-> 3], [col |-> 0, row |-> 7]}

PromotionPieces == {"knight", "bishop", "rook", "queen"}

Moves ==
    {KingSideCastle, QueenSideCastle, Resign}
    \cup {Piece(a, b) : a \in SampleSquares, b \in SampleSquares}
    \cup {Promotion(sq[1], sq[2], p) : sq \in SampleSquares \X SampleSquares, p \in PromotionPieces}

(***************************************************************************)
(* Move::parse (lines 223-225) applied to a text; the texts are the        *)
(* enumerated ones and the ones Display prints.                            *)
(***************************************************************************)
InitParse ==
    /\ board = 6
    /\ pst = [p \in Positions |-> 0]
    /\ engine = None
    /\ depth = 0
    /\ phase = "idle"
    /\ calls = 0
    /\ pc = [t \in Tasks |-> "start"]
    /\ count_lock = 0
    /\ cache_lock = 0
    /\ board_count = 0
    /\ board_cache = EmptyCache
    /\ stack = [t \in Tasks |-> <<>>]
    /\ value = [t \in Tasks |-> 0]
    /\ segs = <<>>
    /\ result = NoResult
    /\ lookup = NoLookup
    /\ leaf_calls = 0
    /\ cache_src = EmptyCache
    /\ order = <<>>
    /\ text \in Texts \cup {Move_fmt(m) : m \in Moves}
    /\ parsed = NotParsed
    /\ cpu = NoCpu

Parse ==
    /\ parsed = NotParsed
    /\ parsed' = try_from(text)
    /\ UNCHANGED <<board, pst, engine, depth, phase, calls, pc, count_lock, cache_lock,
                   board_count, board_cache, stack, value, segs, result, lookup,
                   leaf_calls, cache_src, order, text, cpu>>

NextParse == Parse

SpecParse == InitParse /\ [][NextParse]_vars

(***************************************************************************)
(* C14: for every text Move::parse returns Ok or Err and never panics; a   *)
(* single word of byte length 4 is split into its two halves without       *)
(* failing.                                                                *)
(***************************************************************************)
C14_ParseNeverPanics ==
    parsed # NotParsed => parsed.kind \in {"ok", "err"}

(***************************************************************************)
(* C15: parsing the text Display prints for a move gives that move back.   *)
(***************************************************************************)
Gives(m) == parsed.kind = "ok" /\ parsed.val = m

C15_RoundTrip ==
    parsed # NotParsed =>
        \A m \in Moves : text = Move_fmt(m) => Gives(m)

(***************************************************************************)
(* C16: parsing never gives a promotion to a king or a pawn; the four-word *)
(* form "<from> to <to> <piece>" naming a king or a pawn gives Err; a      *)
(* promotion comes only from the four-word form with "to" second, and the  *)
(* one-word, two-word and three-word forms give Move::Piece when they      *)
(* give a move.                                                            *)
(***************************************************************************)
WordsOf(s) == split_whitespace(Trim(s))

Literals ==
    {W_resign, W_resigns, W_queenside \o <<" ">> \o W_castle,
     W_castle \o <<" ">> \o W_queenside, W_OOO, W_000, W_ooo,
     W_kingside \o <<" ">> \o W_castle, W_castle \o <<" ">> \o W_kingside,
     W_OO, W_00, W_oo}

FourWordForm(s) == Len(WordsOf(s)) = 4 /\ WordsOf(s)[2] = W_to

C16_NoKingOrPawnPromotion ==
    parsed # NotParsed =>
        /\ (parsed.kind = "ok" /\ parsed.val.tag = "Promotion") =>
              /\ parsed.val.piece \in {"knight", "bishop", "rook", "queen"}
              /\ FourWordForm(text)
        /\ (FourWordForm(text) /\ WordsOf(text)[4] \in {W_king, W_pawn}) =>
              parsed.kind = "err"
        /\ (parsed.kind = "ok" /\ Trim(text) \notin Literals /\ Len(WordsOf(text)) \in 1..3) =>
              parsed.val.tag = "Piece"

C16_Witness ==
    /\ parsed.kind = "err"
    /\ FourWordForm(text)
    /\ WordsOf(text)[4] = W_pawn
    /\ WordsOf(text)[1] = W_e2
    /\ WordsOf(text)[3] = W_e2

(***************************************************************************)
(* C17: after trimming, Resign comes exactly from "resign" and "resigns",  *)
(* the castles exactly from their five texts each; every other text gives  *)
(* Move::Piece, Move::Promotion or Err; and a text that is none of the     *)
(* literals and has none of the four word forms gives Err.                 *)
(***************************************************************************)
HasForm(s) ==
    \/ Len(WordsOf(s)) = 1 /\ ByteCount(WordsOf(s)[1]) = 4
    \/ Len(WordsOf(s)) = 2
    \/ Len(WordsOf(s)) = 3 /\ WordsOf(s)[2] = W_to
    \/ FourWordForm(s)

C17_LiteralsAndForms ==
    parsed # NotParsed =>
        /\ Gives(Resign) <=> Trim(text) \in {W_resign, W_resigns}
        /\ Gives(QueenSideCastle) <=>
              Trim(text) \in {W_queenside \o <<" ">> \o W_castle,
                              W_castle \o <<" ">> \o W_queenside, W_OOO, W_000, W_ooo}
        /\ Gives(KingSideCastle) <=>
              Trim(text) \in {W_kingside \o <<" ">> \o W_castle,
                              W_castle \o <<" ">> \o W_kingside, W_OO, W_00, W_oo}
        /\ Trim(text) \notin Literals =>
              \/ parsed.kind = "err"
              \/ parsed.kind = "ok" /\ parsed.val.tag \in {"Piece", "Promotion"}
        /\ (Trim(text) \notin Literals /\ ~HasForm(text)) => parsed.kind = "err"

(* ---------------------------------------------------------------------- *)
(* thunderdome.rs: get_cpu_move, the iterative-deepening driver.           *)
(* Time is counted in milliseconds; Instant::now() reads `now`, and a      *)
(* call of get_best_next_move returns a legal move and a node count after  *)
(* some duration.  The log records every search that has returned.         *)
(* ---------------------------------------------------------------------- *)

MaxCpuDepth == 6

StartDepth == 4

min_time == 10

NodeLimit == 10000

Durations == {0, 4500, 6000, 9500, 10000}

Counts == {0, 9999, 10000, 10001}

as_secs(millis) == millis \div 1000

elapsed(c) == c.now - c.start

SkipDepth(d) == d + 2

NextDepth(d) == d + 1

LoopCondition(c) == as_secs(elapsed(c)) < min_time /\ c.count < NodeLimit

InitDriver ==
    /\ board \in {p \in Positions : get_legal_moves(p) # <<>>}
    /\ pst = [p \in Positions |-> 0]
    /\ engine = None
    /\ depth = 0
    /\ phase = "idle"
    /\ calls = 0
    /\ pc = [t \in Tasks |-> "start"]
    /\ count_lock = 0
    /\ cache_lock = 0
    /\ board_count = 0
    /\ board_cache = EmptyCache
    /\ stack = [t \in Tasks |-> <<>>]
    /\ value = [t \in Tasks |-> 0]
    /\ segs = <<>>
    /\ result = NoResult
    /\ lookup = NoLookup
    /\ leaf_calls = 0
    /\ cache_src = EmptyCache
    /\ order = <<>>
    /\ text = <<>>
    /\ parsed = NotParsed
    /\ cpu = NoCpu

DriverFrame ==
    UNCHANGED <<board, pst, engine, depth, phase, calls, pc, count_lock, cache_lock,
                board_count, board_cache, stack, value, segs, result, lookup,
                leaf_calls, cache_src, order, text, parsed>>

CpuBegin ==
    /\ cpu.pc = "none"
    /\ cpu' = [pc |-> "searching", depth |-> StartDepth, start |-> 0, now |-> 0,
               began |-> 0, m |-> 0, count |-> 0, started |-> <<0>>, log |-> <<>>,
               ret |-> 0, reported |-> 0]
    /\ DriverFrame

CpuSearchReturns ==
    /\ cpu.pc = "searching"
    /\ \E mv \in 1..Len(get_legal_moves(board)), cnt \in Counts, d \in Durations :
          cpu' = [cpu EXCEPT !.pc = "test", !.now = cpu.now + d, !.m = mv,
                             !.count = cnt,
                             !.log = Append(cpu.log, [depth |-> cpu.depth, m |-> mv,
                                                      count |-> cnt])]
    /\ DriverFrame

CpuIterate ==
    /\ cpu.pc = "test"
    /\ LoopCondition(cpu)
    /\ cpu.depth < MaxCpuDepth
    /\ cpu' = [cpu EXCEPT !.pc = "searching", !.start = cpu.now,
                          !.depth = NextDepth(cpu.depth),
                          !.started = Append(cpu.started, cpu.now)]
    /\ DriverFrame

CpuExit ==
    /\ cpu.pc = "test"
    /\ ~LoopCondition(cpu)
    /\ cpu' = [cpu EXCEPT !.pc = "done", !.ret = cpu.m, !.reported = cpu.count]
    /\ DriverFrame

NextDriver ==
    \/ CpuBegin
    \/ CpuSearchReturns
    \/ CpuIterate
    \/ CpuExit

SpecDriver == InitDriver /\ [][NextDriver]_vars

LastSearch(c) == c.log[Len(c.log)]

(* C18: get_cpu_move starts at depth 4 and raises the depth by exactly 1   *)
(* per iteration; a search that was started has returned before the next   *)
(* one starts or the driver returns; the move returned and the count       *)
(* reported are those of the last search that returned, which is the       *)
(* deepest search that was started.                                        *)
C18_ReturnsLastCompletedDepth ==
    cpu.pc # "none" =>
        /\ \A i \in 1..Len(cpu.log) : cpu.log[i].depth = 4 + (i - 1)
        /\ cpu.depth = 4 + (Len(cpu.started) - 1)
        /\ Len(cpu.started) = Len(cpu.log) + (IF cpu.pc = "searching" THEN 1 ELSE 0)
        /\ cpu.pc = "done" =>
              /\ cpu.ret = LastSearch(cpu).m
              /\ cpu.reported = LastSearch(cpu).count
              /\ LastSearch(cpu).depth = cpu.depth

C18_Witness ==
    /\ cpu.pc = "done"
    /\ Len(cpu.log) = 3
    /\ cpu.log[1].m # cpu.log[3].m
    /\ cpu.log[2].m # cpu.log[3].m
    /\ cpu.log[2].count # cpu.log[3].count
    /\ cpu.ret = cpu.log[3].m

(* C19: every further search is started only while fewer than 10 seconds   *)
(* have passed since get_cpu_move began searching and the search that just *)
(* returned reported fewer than 10,000 nodes; when the driver returns, 10  *)
(* seconds have passed since it began or the last count is at least 10,000.*)
C19_StopsOnBudgetOrCount ==
    cpu.pc # "none" =>
        /\ \A i \in 2..Len(cpu.started) :
              /\ as_secs(cpu.started[i] - cpu.began) < 10
              /\ cpu.log[i - 1].count < 10000
        /\ cpu.pc = "done" =>
              \/ as_secs(cpu.now - cpu.began) >= 10
              \/ cpu.count >= 10000

(* ---------------------------------------------------------------------- *)
(* The loop of minimax at an internal node, lib.rs:420-488.                *)
(* ---------------------------------------------------------------------- *)

BestAfter(f) ==
    IF f.is_maximizing
    THEN IF f.child_board_value > f.best_move_value
         THEN f.child_board_value ELSE f.best_move_value
    ELSE MinOfTwo(f.child_board_value, f.best_move_value)

AlphaAfter(f) ==
    IF f.is_maximizing /\ BestAfter(f) > f.alpha THEN BestAfter(f) ELSE f.alpha

BetaAfter(f) ==
    IF ~f.is_maximizing THEN MinOfTwo(BestAfter(f), f.beta) ELSE f.beta

(* The top frame of task t returns v to its caller. *)
NodeReturns(t, v) ==
    LET n == Len(stack[t])
    IN  /\ Len(stack'[t]) = n - 1
        /\ IF n = 1
           THEN value'[t] = v
           ELSE /\ stack'[t][n - 1].child_board_value = v
                /\ stack'[t][n - 1].pc = "update"
                /\ stack'[t][n - 1].i = stack[t][n - 1].i
                /\ stack'[t][n - 1].pos = stack[t][n - 1].pos

(* The top frame of task t examines its child number f.i: it takes a value *)
(* for it from the cache or calls minimax on the position that move gives. *)
ExaminesChild(t) ==
    LET n == Len(stack[t])
        f == stack[t][n]
        m == get_legal_moves(f.pos)[f.i]
    IN  \/ /\ Len(stack'[t]) = n
           /\ stack'[t][n].pc = "update"
           /\ stack'[t][n].i = f.i
           /\ stack'[t][n].alpha = f.alpha
           /\ stack'[t][n].beta = f.beta
           /\ stack'[t][n].best_move_value = f.best_move_value
        \/ /\ Len(stack'[t]) = n + 1
           /\ stack'[t][n] = f
           /\ stack'[t][n + 1].pos = apply_eval_move(f.pos, m)
           /\ stack'[t][n + 1].depth = f.depth - 1
           /\ stack'[t][n + 1].alpha = f.alpha
           /\ stack'[t][n + 1].beta = f.beta
           /\ stack'[t][n + 1].is_maximizing = ~f.is_maximizing
           /\ stack'[t][n + 1].pc = "enter"

C20_Step ==
    \A t \in Tasks :
        (phase = "searching" /\ pc[t] = "minimax" /\ stack[t] # <<>>
            /\ stack'[t] # stack[t] /\ Top(t).depth # 0) =>
            LET n == Len(stack[t])
                f == stack[t][n]
                moves == get_legal_moves(f.pos)
            IN  /\ f.pc = "enter" =>
                      /\ Len(stack'[t]) = n
                      /\ stack'[t][n].pc = "loop"
                      /\ stack'[t][n].i = 1
                      /\ stack'[t][n].alpha = f.alpha
                      /\ stack'[t][n].beta = f.beta
                /\ f.pc = "loop" =>
                      /\ f.alpha < f.beta
                      /\ IF f.i <= Len(moves)
                         THEN ExaminesChild(t)
                         ELSE NodeReturns(t, f.best_move_value)
                /\ f.pc = "update" =>
                      IF BetaAfter(f) <= AlphaAfter(f)
                      THEN NodeReturns(t, BestAfter(f))
                      ELSE /\ Len(stack'[t]) = n
                           /\ stack'[t][n].pc = "loop"
                           /\ stack'[t][n].i = f.i + 1
                           /\ stack'[t][n].best_move_value = BestAfter(f)
                           /\ stack'[t][n].alpha = AlphaAfter(f)
                           /\ stack'[t][n].beta = BetaAfter(f)

(* C20: an internal minimax node examines its children in legal-move       *)
(* order, starting with the first; after each child it updates its best    *)
(* value and alpha (maximizing) or beta (minimizing); if beta <= alpha then *)
(* holds it returns its best value without examining a later child;        *)
(* otherwise, alpha < beta, it goes on to the next child, and it returns   *)
(* its best value after the last one.                                      *)
C20_CutoffWhenBetaLeAlpha == [][C20_Step]_vars

C20_Witness ==
    \E t \in Tasks :
        /\ phase = "searching"
        /\ pc[t] = "minimax"
        /\ stack[t] # <<>>
        /\ Top(t).pc = "update"
        /\ Top(t).depth # 0
        /\ Top(t).i < Len(get_legal_moves(Top(t).pos))
        /\ \/ Top(t).alpha > MaxInit /\ Top(t).alpha < MinInit
           \/ Top(t).beta > MaxInit /\ Top(t).beta < MinInit
        /\ BetaAfter(Top(t)) <= AlphaAfter(Top(t))

(* ---------------------------------------------------------------------- *)
(* Termination of one get_best_next_move call, lib.rs:298-321.  The pool   *)
(* runs every item it has started: a task that can take a step is not      *)
(* left waiting for ever, and neither is the reduction or the return.  The *)
(* caller is under no obligation to call or to ask again.                  *)
(* ---------------------------------------------------------------------- *)

LiveTables == {t \in [Positions -> 0..MaxVal] : \A p \in Positions : p \notin {3, 4, 5} => t[p] = 0}

InitLive ==
    /\ board \in Roots
    /\ pst \in LiveTables
    /\ engine = None
    /\ depth \in 0..MaxDepth
    /\ phase = "idle"
    /\ calls = 0
    /\ pc = [t \in Tasks |-> "start"]
    /\ count_lock = 0
    /\ cache_lock = 0
    /\ board_count = 0
    /\ board_cache = EmptyCache
    /\ stack = [t \in Tasks |-> <<>>]
    /\ value = [t \in Tasks |-> 0]
    /\ segs = <<>>
    /\ result = NoResult
    /\ lookup = NoLookup
    /\ leaf_calls = 0
    /\ cache_src = EmptyCache
    /\ order = <<>>
    /\ text = <<>>
    /\ parsed = NotParsed
    /\ cpu = NoCpu

TaskIds == {t \in Positions : \E p \in Positions : t \in 1..Len(get_legal_moves(p))}

TaskStep(t) ==
    /\ t \in Tasks
    /\ \/ LockCount(t)
       \/ LockCache(t)
       \/ Leaf(t)
       \/ EnterNode(t)
       \/ Lookup(t)
       \/ Update(t)
       \/ Exhausted(t)

Collect ==
    \/ \E i \in 1..Len(segs) : Reduce(i)
    \/ Finish

PoolFairness ==
    /\ \A t \in TaskIds : WF_vars(TaskStep(t))
    /\ WF_vars(Collect)

SpecLive == InitLive /\ [][Next]_vars /\ PoolFairness

(* C21: on a position with at least one legal move a get_best_next_move    *)
(* call that has started eventually returns, and every root task that has  *)
(* not yet taken the counter lock eventually holds both locks and later    *)
(* has finished its minimax with both locks free of it.                    *)
C21_SearchReturns ==
    /\ (phase = "searching" /\ get_legal_moves(board) # <<>>) ~> (phase = "returned")
    /\ \A t \in TaskIds :
          (phase = "searching" /\ t \in Tasks /\ pc[t] = "start")
              ~> (t \in Tasks /\ count_lock = t /\ cache_lock = t /\ pc[t] = "minimax")
    /\ \A t \in TaskIds :
          (t \in Tasks /\ count_lock = t /\ cache_lock = t /\ pc[t] = "minimax")
              ~> (t \in Tasks /\ pc[t] = "done" /\ count_lock # t /\ cache_lock # t)

C21_Witness ==
    /\ phase = "returned"
    /\ result.valid
    /\ depth = MaxDepth
    /\ Len(get_legal_moves(board)) = 3
    /\ \A t \in Tasks : pc[t] = "done"
    /\ count_lock = 0
    /\ cache_lock = 0

(* ---------------------------------------------------------------------- *)
(* The unwrap of the maximum over no root moves, lib.rs:319 and 364.       *)
(* ---------------------------------------------------------------------- *)

C22_Step ==
    get_legal_moves(board) = <<>> =>
        /\ ~result.valid
        /\ ~result'.valid
        /\ phase' # "returned"
        /\ phase = "searching" => phase' = "panicked"
        /\ phase = "panicked" => phase' = "panicked"

(* C22: a call on a position without legal moves never returns a (move,    *)
(* count, score) value; once started it ends in a panic, and stays there.  *)
C22_NoMovesPanics == [][C22_Step]_vars

C22_Witness ==
    /\ get_legal_moves(board) = <<>>
    /\ calls = 1
    /\ phase = "panicked"
    /\ ~result.valid

(* ---------------------------------------------------------------------- *)
(* The values minimax returns above depth 0, lib.rs:417-488.               *)
(* ---------------------------------------------------------------------- *)

InsideRootWindow(v) == -1000000 < v /\ v < 1000000

(* v is a value of position p: a depth-0 evaluation of p held by the cache. *)
CachedValueOf(p, v) ==
    \E k \in DOMAIN board_cache : cache_src[k].pos = p /\ board_cache[k] = v

(* v is a value of the child of node f by move m: a value the cache holds  *)
(* for the child, or what the call of minimax on the child returns.        *)
ValueOfChild(f, m, v) ==
    LET child == Frame(apply_eval_move(f.pos, m), f.depth - 1, f.alpha, f.beta,
                       ~f.is_maximizing, f.getting_move_for,
                       Some(eval_engine(f.engine)))
    IN  \/ CachedValueOf(child.pos, v)
        \/ v = MinimaxRec(child, [cache |-> board_cache, count |-> board_count]).val

C23_Step ==
    \A t \in Tasks :
        (phase = "searching" /\ pc[t] = "minimax" /\ stack[t] # <<>>
            /\ stack'[t] # stack[t] /\ Top(t).depth # 0) =>
            LET n == Len(stack[t])
                f == stack[t][n]
                moves == get_legal_moves(f.pos)
            IN  /\ moves = <<>> =>
                      /\ board_count' = board_count
                      /\ board_cache' = board_cache
                      /\ f.pc = "loop" =>
                            NodeReturns(t, IF f.is_maximizing THEN -999999 ELSE 999999)
                /\ (f.pc = "loop" /\ f.i <= Len(moves) /\ Len(stack'[t]) = n) =>
                      ValueOfChild(f, moves[f.i], stack'[t][n].child_board_value)
                /\ f.pc = "update" =>
                      /\ InsideRootWindow(f.child_board_value)
                      /\ BestAfter(f) \in {f.child_board_value, f.best_move_value}
                      /\ f.i = 1 => BestAfter(f) = f.child_board_value
                /\ (f.pc = "loop" /\ f.i > Len(moves)) =>
                      /\ InsideRootWindow(f.best_move_value)
                      /\ NodeReturns(t, f.best_move_value)

(* C23: above depth 0 a node without legal moves returns -999999 when      *)
(* maximizing and 999999 when minimizing and touches neither the counter   *)
(* nor the cache; any other node returns the value of one of its children  *)
(* (what minimax returned for the child, or a value the cache holds for   *)
(* the child); every returned value lies strictly between -1000000 and     *)
(* 1000000.                                                                *)
C23_SentinelOrChildValue == [][C23_Step]_vars

(* ---------------------------------------------------------------------- *)
(* The arguments of every minimax call, lib.rs:291-314 and 430-439.        *)
(* ---------------------------------------------------------------------- *)

(* C24: in every minimax call of a search, is_maximizing is true exactly   *)
(* when the side to move at the node is the colour the move is chosen for; *)
(* that colour is the mover at the root and the weights are the caller's   *)
(* in every call; every cached depth-0 evaluation is the weighted sum for  *)
(* that colour, whoever is to move at the leaf.                            *)
C24_MaximizingIffOwnSide ==
    /\ \A t \in Tasks : \A j \in 1..Len(stack[t]) :
          LET f == stack[t][j]
          IN  /\ f.is_maximizing <=>
                    (get_current_player_color(f.pos) = f.getting_move_for)
              /\ f.getting_move_for = get_current_player_color(board)
              /\ eval_engine(f.engine) = eval_engine(engine)
    /\ \A k \in DOMAIN board_cache :
          board_cache[k] =
              LeafEval(pst, cache_src[k].pos, get_current_player_color(board), engine)

C24_Witness ==
    /\ phase = "searching"
    /\ ~engine.some
    /\ \E t \in Tasks :
          /\ Len(stack[t]) = 3
          /\ stack[t][2].is_maximizing
          /\ stack[t][3].depth = 0
          /\ ~stack[t][3].is_maximizing
          /\ get_current_player_color(stack[t][3].pos) # get_current_player_color(board)
    /\ \E k \in DOMAIN board_cache :
          /\ get_current_player_color(cache_src[k].pos) # get_current_player_color(board)
          /\ board_cache[k] # 0

(* ---------------------------------------------------------------------- *)
(* Termination of get_cpu_move, thunderdome.rs:14-32.  Only what the loop  *)
(* test reads is kept: the depth, the count of the last search, and the    *)
(* time since `start`, which line 25 sets anew before every search, so     *)
(* that it is the running time of the last search.  depth is a signed      *)
(* integer of DepthBits bits: depth += 1 at the largest value panics in a  *)
(* build with overflow checks and wraps around in one without.             *)
(* ---------------------------------------------------------------------- *)

DepthBits == 4

RECURSIVE Pow2(_)
Pow2(n) == IF n = 0 THEN 1 ELSE 2 * Pow2(n - 1)

DepthMax == Pow2(DepthBits - 1) - 1

wrapping_add(d, k) == ((d + k + Pow2(DepthBits - 1)) % Pow2(DepthBits)) - Pow2(DepthBits - 1)

RunBegin ==
    /\ cpu.pc = "none"
    /\ cpu' = [pc |-> "searching", depth |-> StartDepth, start |-> 0, now |-> 0,
               m |-> 0, count |-> 0]
    /\ DriverFrame

RunSearchReturns ==
    /\ cpu.pc = "searching"
    /\ \E mv \in 1..Len(get_legal_moves(board)), cnt \in Counts, d \in Durations :
          cpu' = [cpu EXCEPT !.pc = "test", !.now = d, !.m = mv, !.count = cnt]
    /\ DriverFrame

RunIterate ==
    /\ cpu.pc = "test"
    /\ LoopCondition(cpu)
    /\ \/ cpu' = [cpu EXCEPT !.pc = "searching", !.start = 0, !.now = 0,
                             !.depth = wrapping_add(cpu.depth, 1)]
       \/ /\ cpu.depth = DepthMax
          /\ cpu' = [cpu EXCEPT !.pc = "panicked"]
    /\ DriverFrame

RunExit ==
    /\ cpu.pc = "test"
    /\ ~LoopCondition(cpu)
    /\ cpu' = [cpu EXCEPT !.pc = "done"]
    /\ DriverFrame

NextRun ==
    \/ RunBegin
    \/ RunSearchReturns
    \/ RunIterate
    \/ RunExit

SpecRun == InitDriver /\ [][NextRun]_vars /\ WF_vars(NextRun)

(* C25: on a position with a legal move, get_cpu_move, once it has begun   *)
(* to search, eventually returns a move.                                   *)
C25_DriverReturns == (cpu.pc = "searching") ~> (cpu.pc = "done")

(* ---------------------------------------------------------------------- *)
(* The game loop of the drivers, thunderdome.rs:180-319 and                *)
(* examples/thunderdome.rs:129-154.  `board` is the driver's b; cpu holds  *)
(* the loop's position, the move the engine gave, the result of play_move  *)
(* and the number of moves asked for in this game.                         *)
(* ---------------------------------------------------------------------- *)

MaxHalfmoves == 4

NoGameResult == [kind |-> "none", next_board |-> 0, mov |-> 0]

Continuing(next_board) == [kind |-> "Continuing", next_board |-> next_board, mov |-> 0]

Victory == [kind |-> "Victory", next_board |-> 0, mov |-> 0]

Stalemate == [kind |-> "Stalemate", next_board |-> 0, mov |-> 0]

IllegalMove(m) == [kind |-> "IllegalMove", next_board |-> 0, mov |-> m]

(* What play_move can answer for move m on board b: the move is refused,   *)
(* or it is played and the game goes on with the next board unless the     *)
(* side to move then has no legal move (Victory or Stalemate) or the       *)
(* material is insufficient (Stalemate).                                   *)
play_move(b, m) ==
    LET next_board == apply_eval_move(b, m)
    IN  {IllegalMove(m), Stalemate}
        \cup (IF get_legal_moves(next_board) = <<>>
              THEN {Victory}
              ELSE {Continuing(next_board)})

Board_default == 0

InitGame ==
    /\ board = Board_default
    /\ pst = [p \in Positions |-> 0]
    /\ engine = None
    /\ depth = 0
    /\ phase = "idle"
    /\ calls = 0
    /\ pc = [t \in Tasks |-> "start"]
    /\ count_lock = 0
    /\ cache_lock = 0
    /\ board_count = 0
    /\ board_cache = EmptyCache
    /\ stack = [t \in Tasks |-> <<>>]
    /\ value = [t \in Tasks |-> 0]
    /\ segs = <<>>
    /\ result = NoResult
    /\ lookup = NoLookup
    /\ leaf_calls = 0
    /\ cache_src = EmptyCache
    /\ order = <<>>
    /\ text = <<>>
    /\ parsed = NotParsed
    /\ cpu = [pc |-> "ask", m |-> 0, res |-> NoGameResult, halfmoves |-> 0]

GameFrame ==
    UNCHANGED <<pst, engine, depth, phase, calls, pc, count_lock, cache_lock,
                board_count, board_cache, stack, value, segs, result, lookup,
                leaf_calls, cache_src, order, text, parsed>>

(* let m = get_cpu_move(&b, ...): the board is only read. *)
AskEngine ==
    /\ cpu.pc = "ask"
    /\ cpu.halfmoves < MaxHalfmoves
    /\ \E m \in 1..Len(get_legal_moves(board)) :
          cpu' = [cpu EXCEPT !.pc = "play", !.m = m, !.halfmoves = cpu.halfmoves + 1]
    /\ board' = board
    /\ GameFrame

BreakOnIllegalMove(c) == [c EXCEPT !.pc = "ended"]

OnIllegalMove(c) == [c EXCEPT !.pc = "ask"]

(* match b.play_move(m) with its four arms; the arms of thunderdome.rs     *)
(* that write to the database panic when the write fails.                  *)
PlayMove ==
    /\ cpu.pc = "play"
    /\ \E r \in play_move(board, cpu.m), db_ok \in BOOLEAN :
          LET c == [cpu EXCEPT !.res = r]
          IN  \/ /\ r.kind = "Continuing"
                 /\ board' = r.next_board
                 /\ cpu' = [c EXCEPT !.pc = IF db_ok THEN "ask" ELSE "panicked"]
              \/ /\ r.kind \in {"Victory", "Stalemate"}
                 /\ board' = board
                 /\ cpu' = [c EXCEPT !.pc = IF db_ok THEN "ended" ELSE "panicked"]
              \/ /\ r.kind = "IllegalMove"
                 /\ db_ok
                 /\ board' = board
                 /\ cpu' = OnIllegalMove(c)
    /\ GameFrame

(* The outer loop: a new game on a new default board. *)
NewGame ==
    /\ cpu.pc = "ended"
    /\ board' = Board_default
    /\ cpu' = [pc |-> "ask", m |-> 0, res |-> NoGameResult, halfmoves |-> 0]
    /\ GameFrame

NextGame ==
    \/ AskEngine
    \/ PlayMove
    \/ NewGame

SpecGame == InitGame /\ [][NextGame]_vars

C26_Step ==
    cpu.pc \in {"ask", "play"} =>
        /\ board' # board =>
              /\ cpu.pc = "play"
              /\ cpu'.res.kind = "Continuing"
        /\ cpu.pc = "play" =>
              /\ cpu'.res \in play_move(board, cpu.m)
              /\ cpu'.res.kind = "Continuing" => board' = cpu'.res.next_board
              /\ cpu'.res.kind = "IllegalMove" =>
                    /\ board' = board
                    /\ cpu'.pc = "ask"
              /\ cpu'.pc = "ended" <=>
                    (cpu'.res.kind \in {"Victory", "Stalemate"} /\ cpu'.pc # "panicked")
              /\ (cpu'.res.kind = "Continuing" /\ cpu'.pc # "panicked") => cpu'.pc = "ask"

(* C26: during a game the driver's board changes only in the step that     *)
(* handles Continuing(next_board), and becomes next_board; on IllegalMove  *)
(* the board stays, the game goes on and the engine is asked again from    *)
(* the same position; the loop is left exactly on Victory and Stalemate.   *)
C26_BoardChangesOnContinuing == [][C26_Step]_vars

C26_Witness ==
    /\ cpu.pc = "ask"
    /\ cpu.res.kind = "IllegalMove"
    /\ cpu.halfmoves >= 2
    /\ board # Board_default

====
